---- MODULE Spec2Model ----
(***************************************************************************)
(* A model of quant_engine: Backtester.run, compute_performance_metrics,   *)
(* the two Kelly-criterion functions and MomentumStrategy.generate_signals.*)
(*                                                                         *)
(* Floats are modelled as exact rationals n/d in lowest terms (d > 0),     *)
(* together with NaN (the missing value of pandas/numpy) and the two       *)
(* infinities, written n/0 with n = 1 or n = -1.  Rounding is not modelled.*)
(***************************************************************************)
EXTENDS Integers, Sequences, FiniteSets, TLC

VARIABLES
    pc,                \* the call that has just returned, "idle" before any
    prices,            \* Backtester.prices
    signals,           \* Backtester.signals
    initial_capital,   \* Backtester.initial_capital
    short_window,      \* MomentumStrategy.short_window
    long_window,       \* MomentumStrategy.long_window
    results,           \* what Backtester.run returned or raised
    returns,           \* compute_performance_metrics: returns
    risk_free_rate,    \* compute_performance_metrics: risk_free_rate
    metrics,           \* what compute_performance_metrics returned or raised
    p,                 \* kelly_fraction_win_loss: p
    b,                 \* kelly_fraction_win_loss: b
    kelly_returns,     \* kelly_fraction_continuous: returns
    kelly              \* what the Kelly function returned or raised

vars == <<pc, prices, signals, initial_capital, short_window, long_window, results,
          returns, risk_free_rate, metrics, p, b, kelly_returns, kelly>>

\* ------------------------------------------------------------------ bounds
MaxT == 3          \* timestamps are drawn from 1..MaxT
MaxLen == 3        \* longest return sequence handed to a function directly

\* ------------------------------------------------------------ float values
NaN == [nan |-> TRUE, n |-> 0, d |-> 1]

Abs(x) == IF x < 0 THEN -x ELSE x

RECURSIVE Gcd(_, _)
Gcd(x, y) == IF y = 0 THEN x ELSE Gcd(y, x % y)

Rat(n, d) ==
    LET s == IF d < 0 THEN -1 ELSE 1
        g == Gcd(Abs(n), Abs(d))
    IN  [nan |-> FALSE, n |-> (s * n) \div g, d |-> (s * d) \div g]

Zero == Rat(0, 1)
One == Rat(1, 1)

Neg(x) == [nan |-> x.nan, n |-> -x.n, d |-> x.d]
Add(x, y) ==
    IF x.nan \/ y.nan THEN NaN
    ELSE LET g == Gcd(x.d, y.d)
         IN  Rat(x.n * (y.d \div g) + y.n * (x.d \div g), (x.d \div g) * y.d)
Sub(x, y) == Add(x, Neg(y))
Mul(x, y) ==
    IF x.nan \/ y.nan THEN NaN
    ELSE LET g == Gcd(Abs(x.n), y.d)
             h == Gcd(Abs(y.n), x.d)
         IN  Rat((x.n \div g) * (y.n \div h), (x.d \div h) * (y.d \div g))
\* IEEE division: 0/0 is NaN, x/0 is an infinity (n/0), no exception.
Div(x, y) ==
    IF x.nan \/ y.nan THEN NaN
    ELSE IF x.n = 0 /\ y.n = 0 THEN NaN
    ELSE Rat(x.n * y.d, x.d * y.n)
\* Comparisons with NaN are false, except !=, which is true.
Eq(x, y) == ~x.nan /\ ~y.nan /\ x.n * y.d = y.n * x.d
Lt(x, y) == ~x.nan /\ ~y.nan /\ x.n * y.d < y.n * x.d
Le(x, y) == ~x.nan /\ ~y.nan /\ x.n * y.d <= y.n * x.d
Sign(x) == IF x.n > 0 THEN 1 ELSE IF x.n < 0 THEN -1 ELSE 0

\* ------------------------------------------------------------ pandas.Series
\* A Series is a sequence of [ts, v]: the index label and the value.
Point(t, x) == [ts |-> t, v |-> x]
\* the sequence with the elements of f, each computed once
MkSeries(f) == SubSeq(f, 1, Len(f))
SeriesIndex(s) == MkSeries([i \in 1..Len(s) |-> s[i].ts])

\* Series.reindex(index): the value at each label of index, NaN where absent.
reindex(s, index) ==
    MkSeries([i \in 1..Len(index) |->
        IF \E j \in 1..Len(s) : s[j].ts = index[i]
        THEN Point(index[i], s[CHOOSE j \in 1..Len(s) : s[j].ts = index[i]].v)
        ELSE Point(index[i], NaN)])

\* Series.fillna(x)
fillna(s, x) == MkSeries([i \in 1..Len(s) |-> Point(s[i].ts, IF s[i].v.nan THEN x ELSE s[i].v)])

\* Series.shift(1)
shift(s) == MkSeries([i \in 1..Len(s) |-> Point(s[i].ts, IF i = 1 THEN NaN ELSE s[i - 1].v)])

\* Series.dropna()
dropna(s) == SelectSeq(s, LAMBDA e : ~e.v.nan)

\* Series.pct_change(): NaN first, then (s[i] - s[i-1]) / s[i-1].
pct_change(s) ==
    MkSeries([i \in 1..Len(s) |->
        Point(s[i].ts, IF i = 1 THEN NaN
                       ELSE Div(Sub(s[i].v, s[i - 1].v), s[i - 1].v))])

\* signals * returns on two Series with the same index: value by value.
SeriesMul(x, y) == MkSeries([i \in 1..Len(x) |-> Point(x[i].ts, Mul(x[i].v, y[i].v))])
\* 1 + s and s * c on a Series
SeriesAddScalar(s, c) == MkSeries([i \in 1..Len(s) |-> Point(s[i].ts, Add(s[i].v, c))])
SeriesMulScalar(s, c) == MkSeries([i \in 1..Len(s) |-> Point(s[i].ts, Mul(s[i].v, c))])

\* Reductions skip NaN (skipna=True).
RECURSIVE ProdTo(_, _)
ProdTo(s, i) ==
    IF i = 0 THEN One
    ELSE IF s[i].v.nan THEN ProdTo(s, i - 1)
    ELSE Mul(ProdTo(s, i - 1), s[i].v)

RECURSIVE SumTo(_, _)
SumTo(s, i) ==
    IF i = 0 THEN Zero
    ELSE IF s[i].v.nan THEN SumTo(s, i - 1)
    ELSE Add(SumTo(s, i - 1), s[i].v)

\* running maximum of the non-NaN values of s[1..i]; NaN when there is none
RECURSIVE MaxTo(_, _)
MaxTo(s, i) ==
    IF i = 0 THEN NaN
    ELSE LET m == MaxTo(s, i - 1)
         IN  IF s[i].v.nan THEN m
             ELSE IF m.nan THEN s[i].v
             ELSE IF Lt(m, s[i].v) THEN s[i].v ELSE m

RECURSIVE MinTo(_, _)
MinTo(s, i) ==
    IF i = 0 THEN NaN
    ELSE LET m == MinTo(s, i - 1)
         IN  IF s[i].v.nan THEN m
             ELSE IF m.nan THEN s[i].v
             ELSE IF Lt(s[i].v, m) THEN s[i].v ELSE m

Count(s) == Len(dropna(s))

prod(s) == ProdTo(s, Len(s))
\* Series.mean(): NaN for no usable entry
mean(s) == IF Count(s) = 0 THEN NaN ELSE Div(SumTo(s, Len(s)), Rat(Count(s), 1))
\* Series.min(): NaN for no usable entry
min(s) == MinTo(s, Len(s))
\* Series.cumprod() / cummax(): NaN entries stay NaN and are skipped
cumprod(s) == MkSeries([i \in 1..Len(s) |-> Point(s[i].ts, IF s[i].v.nan THEN NaN ELSE ProdTo(s, i))])
cummax(s) == MkSeries([i \in 1..Len(s) |-> Point(s[i].ts, IF s[i].v.nan THEN NaN ELSE MaxTo(s, i))])

\* sum of squared deviations from m over the usable entries of s[1..i]
RECURSIVE SqDevTo(_, _, _)
SqDevTo(s, m, i) ==
    IF i = 0 THEN Zero
    ELSE IF s[i].v.nan THEN SqDevTo(s, m, i - 1)
    ELSE Add(SqDevTo(s, m, i - 1), Mul(Sub(s[i].v, m), Sub(s[i].v, m)))

\* The square of Series.std(ddof) / np.var(ddof): NaN when count <= ddof.
\* A standard deviation is carried as its square, which is rational.
var(s, ddof) ==
    LET m == mean(s)
        c == Count(s)
    IN  IF c <= ddof THEN NaN
        ELSE Div(SqDevTo(s, m, Len(s)), Rat(c - ddof, 1))

\* ------------------------------------------------------------ numpy helpers
RECURSIVE Insert(_, _)
Insert(sorted, e) ==
    IF sorted = <<>> THEN <<e>>
    ELSE IF Le(e.v, Head(sorted).v) THEN <<e>> \o sorted
    ELSE <<Head(sorted)>> \o Insert(Tail(sorted), e)

RECURSIVE SortSeries(_)
SortSeries(s) == IF s = <<>> THEN <<>> ELSE Insert(SortSeries(Tail(s)), Head(s))

\* np.percentile(a, q) of a non-empty array without NaN, method 'linear':
\* the virtual index (n-1)*q/100 (0-based) is interpolated between its neighbours.
percentile(arr, q) ==
    LET srt == SortSeries(arr)
        n == Len(arr)
        lo == ((n - 1) * q) \div 100
        g == Rat(((n - 1) * q) % 100, 100)
        hi == IF lo + 1 > n - 1 THEN lo ELSE lo + 1
    IN  Add(srt[lo + 1].v, Mul(Sub(srt[hi + 1].v, srt[lo + 1].v), g))

\* np.percentile of an empty array depends on the numpy release: older ones
\* return nan (with a warning), newer ones raise IndexError.
PercentileOutcomes(arr) == IF Len(arr) = 0 THEN {"nan", "IndexError"} ELSE {"value"}

\* ------------------------------------------------- compute_performance_metrics
ann_factor == 252
var_q == 5

MetricKeys == {"total_return", "annualized_return", "annualized_volatility",
               "sharpe_ratio", "max_drawdown", "value_at_risk"}

\* (1 + avg) ** ann_factor - 1 is kept as its base and exponent: the exact
\* value does not fit a machine integer.
PowMinusOne(base, e) == [nan |-> base.nan, base |-> base, exp |-> e]

\* std * sqrt(ann_factor) is kept as its square; std2 is the square of std.
AnnVolatility(std2) == [nan |-> std2.nan, sq |-> Mul(std2, Rat(ann_factor, 1))]

\* ann_volatility != 0 (true for NaN)
VolatilityNonZero(vol) == vol.nan \/ vol.sq.n # 0

\* (avg - rf) / std * sqrt(ann_factor), kept as its sign and its square
SharpeValue(avg, rf, std2) ==
    LET excess == Sub(avg, rf)
        q == Div(Mul(Mul(excess, excess), Rat(ann_factor, 1)), std2)
    IN  [nan |-> q.nan, sgn |-> IF q.nan THEN 0 ELSE Sign(excess), sq |-> q]

SharpeZero == [nan |-> FALSE, sgn |-> 0, sq |-> Zero]

Sharpe(avg, rf, std2) ==
    IF VolatilityNonZero(AnnVolatility(std2))
    THEN SharpeValue(avg, rf, std2)
    ELSE SharpeZero

\* the decline from the peak, not divided by the peak
Drawdowns_Absolute(cumulative_return_series) ==
    LET peak == cummax(cumulative_return_series)
    IN  MkSeries([i \in 1..Len(cumulative_return_series) |->
            Point(cumulative_return_series[i].ts,
                  Sub(cumulative_return_series[i].v, peak[i].v))])

\* (cumulative_return_series - peak) / peak
Drawdowns(cumulative_return_series) ==
    LET peak == cummax(cumulative_return_series)
    IN  MkSeries([i \in 1..Len(cumulative_return_series) |->
            Point(cumulative_return_series[i].ts,
                  Div(Sub(cumulative_return_series[i].v, peak[i].v), peak[i].v))])

MaxDrawdown(rets) == min(Drawdowns(cumprod(SeriesAddScalar(rets, One))))

\* The whole function; np_empty is what np.percentile does on this input.
compute_performance_metrics(rets, rf, np_empty) ==
    LET avg_daily_return == mean(rets)
        std2 == var(rets, 1)
    IN  IF np_empty = "IndexError"
        THEN [raised |-> "IndexError", value |-> <<>>]
        ELSE [raised |-> "none",
              value |->
                [total_return |-> Sub(prod(SeriesAddScalar(rets, One)), One),
                 annualized_return |-> PowMinusOne(Add(One, avg_daily_return), ann_factor),
                 annualized_volatility |-> AnnVolatility(std2),
                 sharpe_ratio |-> Sharpe(avg_daily_return, rf, std2),
                 max_drawdown |-> MaxDrawdown(rets),
                 value_at_risk |-> IF np_empty = "nan" THEN NaN
                                   ELSE percentile(dropna(rets), var_q)]]

\* ------------------------------------------------------------ Backtester.run
\* the last value seen so far, NaN before the first
RECURSIVE LastSeen(_, _)
LastSeen(s, i) ==
    IF i = 0 THEN NaN
    ELSE IF s[i].v.nan THEN LastSeen(s, i - 1) ELSE s[i].v

\* gaps filled forward (reindex(..., method='ffill')) before fillna(0)
AlignSignals_Ffill(sig, pr) ==
    LET r == reindex(sig, SeriesIndex(pr))
    IN  fillna(MkSeries([i \in 1..Len(r) |-> Point(r[i].ts, LastSeen(r, i))]), Zero)

AlignSignals(sig, pr) == fillna(reindex(sig, SeriesIndex(pr)), Zero)

PriceReturns(pr) == fillna(pct_change(pr), Zero)

\* the engine shifting the positions once more
StrategyReturns_Shifted(sig, pr) ==
    SeriesMul(fillna(shift(AlignSignals(sig, pr)), Zero), PriceReturns(pr))

\* strat_returns = signals * returns
StrategyReturns(sig, pr) == SeriesMul(AlignSignals(sig, pr), PriceReturns(pr))

\* strat_returns.cumprod() * initial_capital, without the 1 +
EquityCurve_NoOnePlus(strat_returns, capital) ==
    SeriesMulScalar(cumprod(strat_returns), capital)

\* equity_curve = (1 + strat_returns).cumprod() * initial_capital
EquityCurve(strat_returns, capital) ==
    SeriesMulScalar(cumprod(SeriesAddScalar(strat_returns, One)), capital)

run(pr, sig, capital, np_empty) ==
    LET aligned == AlignSignals(sig, pr)
        strat_returns == StrategyReturns(sig, pr)
        equity_curve == EquityCurve(strat_returns, capital)
        m == compute_performance_metrics(strat_returns, Zero, np_empty)
    IN  IF m.raised # "none"
        THEN [raised |-> m.raised, equity_curve |-> <<>>, strategy_returns |-> <<>>,
              signals |-> <<>>, metrics |-> <<>>]
        ELSE [raised |-> "none", equity_curve |-> equity_curve,
              strategy_returns |-> strat_returns, signals |-> aligned,
              metrics |-> m.value]

\* ------------------------------------------------------------ kelly_criterion
\* the bounds of p accepted: 0 <= p <= 1
kelly_fraction_win_loss_ClosedP(kp, kb) ==
    IF ~(Le(Zero, kp) /\ Le(kp, One))
    THEN [raised |-> "ValueError", value |-> NaN]
    ELSE IF Le(kb, Zero)
    THEN [raised |-> "ValueError", value |-> NaN]
    ELSE [raised |-> "none",
          value |-> Div(Sub(Mul(kb, kp), Sub(One, kp)), kb)]

kelly_fraction_win_loss(kp, kb) ==
    IF ~(Lt(Zero, kp) /\ Lt(kp, One))
    THEN [raised |-> "ValueError", value |-> NaN]
    ELSE IF Le(kb, Zero)
    THEN [raised |-> "ValueError", value |-> NaN]
    ELSE [raised |-> "none",
          value |-> Div(Sub(Mul(kb, kp), Sub(One, kp)), kb)]

\* np.asarray(list(rets)) as a Series over positions
AsSeries(xs) == MkSeries([i \in 1..Len(xs) |-> Point(i, xs[i])])

kelly_fraction_continuous(xs) ==
    LET r == AsSeries(xs)
        mu == mean(r)
        variance == var(r, 0)
    IN  IF Eq(variance, Zero)
        THEN [raised |-> "none", value |-> Zero]
        ELSE [raised |-> "none", value |-> Div(mu, variance)]

\* -------------------------------------------- MomentumStrategy.generate_signals
\* Series.rolling(window, min_periods=1).mean()
RECURSIVE SumRange(_, _, _)
SumRange(s, lo, hi) == IF lo > hi THEN Zero ELSE Add(SumRange(s, lo, hi - 1), s[hi].v)

rolling_mean(s, window) ==
    MkSeries([i \in 1..Len(s) |->
        LET lo == IF i - window + 1 < 1 THEN 1 ELSE i - window + 1
        IN  Point(s[i].ts, Div(SumRange(s, lo, i), Rat(i - lo + 1, 1)))])

\* (short_ma > long_ma).astype(int)
RawSignal(s, sw, lw) ==
    LET short_ma == rolling_mean(s, sw)
        long_ma == rolling_mean(s, lw)
    IN  MkSeries([i \in 1..Len(s) |->
            Point(s[i].ts, IF Lt(long_ma[i].v, short_ma[i].v) THEN One ELSE Zero)])

\* the raw signal, not shifted
generate_signals_NoShift(price_series, sw, lw) == RawSignal(price_series, sw, lw)

generate_signals(price_series, sw, lw) == fillna(shift(RawSignal(price_series, sw, lw)), Zero)

\* ------------------------------------------------------------------ inputs
MaxWindow == 3     \* moving-average windows are drawn from 1..MaxWindow

Timestamps == 1..MaxT
PriceValues == {Rat(1, 1), Rat(2, 1)}
\* short, fractional and leveraged; a timestamp without a signal is flat, and
\* long/flat positions come from generate_signals
PositionValues == {Rat(-1, 1), Rat(1, 2), Rat(3, 1)}
Capitals == {Rat(-1000, 1), Zero, Rat(1000, 1)}
ReturnValues == {NaN, Rat(-3, 2), Rat(-1, 1), Rat(-1, 2), Zero, Rat(1, 2)}
RiskFreeRates == {Zero, Rat(1, 2)}
Probabilities == {Rat(-1, 2), Zero, Rat(1, 4), Rat(1, 2), Rat(3, 5), One, Rat(3, 2)}
Odds == {Rat(-1, 1), Zero, Rat(1, 2), One, Rat(2, 1)}
KellyValues == {Rat(-1, 2), Zero, Rat(1, 100), Rat(1, 2)}
Windows == 1..MaxWindow

\* the i-th smallest element of a set of timestamps
Nth(S, i) == CHOOSE t \in S : Cardinality({u \in S : u < t}) = i - 1

\* TimeSeries<T>: strictly increasing timestamps, no duplicates
TimeSeriesOn(S, f) == MkSeries([i \in 1..Cardinality(S) |-> Point(Nth(S, i), f[Nth(S, i)])])
TimeSeriesSet(V) ==
    UNION { {TimeSeriesOn(S, f) : f \in [S -> V]} : S \in SUBSET Timestamps }

SeqsUpTo(V, k) == UNION { [1..m -> V] : m \in 0..k }

NoSeries == <<>>
NoResult == [raised |-> "none", value |-> <<>>]
NoRun == [raised |-> "none", equity_curve |-> <<>>, strategy_returns |-> <<>>,
          signals |-> <<>>, metrics |-> <<>>]

\* ------------------------------------------------------------- state machine
Init ==
    /\ pc = "idle"
    /\ prices = NoSeries
    /\ signals = NoSeries
    /\ initial_capital = Zero
    /\ short_window = 0
    /\ long_window = 0
    /\ results = NoRun
    /\ returns = NoSeries
    /\ risk_free_rate = Zero
    /\ metrics = NoResult
    /\ p = Zero
    /\ b = Zero
    /\ kelly_returns = NoSeries
    /\ kelly = NoResult

\* Backtester(prices, signals, initial_capital).run()
Run ==
    /\ pc = "idle"
    /\ \E pr \in TimeSeriesSet(PriceValues), sg \in TimeSeriesSet(PositionValues),
          c \in Capitals :
         \E o \in PercentileOutcomes(dropna(StrategyReturns(sg, pr))) :
            /\ prices' = pr
            /\ signals' = sg
            /\ initial_capital' = c
            /\ results' = run(pr, sg, c, o)
    /\ pc' = "run"
    /\ UNCHANGED <<short_window, long_window, returns, risk_free_rate, metrics,
                   p, b, kelly_returns, kelly>>

\* run_example.main: generate_signals(prices), then
\* Backtester(prices, signals, initial_capital=10000.0).run()
example_capital == 10000

Pipeline ==
    /\ pc = "idle"
    /\ \E pr \in TimeSeriesSet(PriceValues), sw \in Windows, lw \in Windows :
         LET sg == generate_signals(pr, sw, lw)
             c == Rat(example_capital, 1)
         IN  \E o \in PercentileOutcomes(dropna(StrategyReturns(sg, pr))) :
                /\ prices' = pr
                /\ short_window' = sw
                /\ long_window' = lw
                /\ signals' = sg
                /\ initial_capital' = c
                /\ results' = run(pr, sg, c, o)
    /\ pc' = "pipeline"
    /\ UNCHANGED <<returns, risk_free_rate, metrics, p, b, kelly_returns, kelly>>

\* compute_performance_metrics(returns, risk_free_rate) called directly
ComputeMetrics ==
    /\ pc = "idle"
    /\ \E xs \in SeqsUpTo(ReturnValues, MaxLen), rf \in RiskFreeRates :
         \E o \in PercentileOutcomes(dropna(AsSeries(xs))) :
            /\ returns' = AsSeries(xs)
            /\ risk_free_rate' = rf
            /\ metrics' = compute_performance_metrics(AsSeries(xs), rf, o)
    /\ pc' = "metrics"
    /\ UNCHANGED <<prices, signals, initial_capital, short_window, long_window,
                   results, p, b, kelly_returns, kelly>>

KellyWinLoss ==
    /\ pc = "idle"
    /\ \E kp \in Probabilities, kb \in Odds :
         /\ p' = kp
         /\ b' = kb
         /\ kelly' = kelly_fraction_win_loss(kp, kb)
    /\ pc' = "kelly_win_loss"
    /\ UNCHANGED <<prices, signals, initial_capital, short_window, long_window,
                   results, returns, risk_free_rate, metrics, kelly_returns>>

KellyContinuous ==
    /\ pc = "idle"
    /\ \E xs \in SeqsUpTo(KellyValues, MaxLen) :
         /\ kelly_returns' = xs
         /\ kelly' = kelly_fraction_continuous(xs)
    /\ pc' = "kelly_continuous"
    /\ UNCHANGED <<prices, signals, initial_capital, short_window, long_window,
                   results, returns, risk_free_rate, metrics, p, b>>

\* the caller is done with the result; the functions keep no state
Return ==
    /\ pc # "idle"
    /\ pc' = "idle"
    /\ prices' = NoSeries
    /\ signals' = NoSeries
    /\ initial_capital' = Zero
    /\ short_window' = 0
    /\ long_window' = 0
    /\ results' = NoRun
    /\ returns' = NoSeries
    /\ risk_free_rate' = Zero
    /\ metrics' = NoResult
    /\ p' = Zero
    /\ b' = Zero
    /\ kelly_returns' = NoSeries
    /\ kelly' = NoResult

Next == Run \/ Pipeline \/ ComputeMetrics \/ KellyWinLoss \/ KellyContinuous \/ Return

Spec == Init /\ [][Next]_vars

\* one specification per component
NextBacktest == Run \/ Return
SpecBacktest == Init /\ [][NextBacktest]_vars

NextPipeline == Pipeline \/ Return
SpecPipeline == Init /\ [][NextPipeline]_vars

NextMetrics == ComputeMetrics \/ Return
SpecMetrics == Init /\ [][NextMetrics]_vars

NextKelly == KellyWinLoss \/ KellyContinuous \/ Return
SpecKelly == Init /\ [][NextKelly]_vars

\* ------------------------------------------------------------------- claims
\* the position supplied for a timestamp, flat when none was supplied
PositionAt(t) ==
    IF \E j \in 1..Len(signals) : signals[j].ts = t
    THEN signals[CHOOSE j \in 1..Len(signals) : signals[j].ts = t].v
    ELSE Zero

\* (1 + r[1]) * ... * (1 + r[t])
RECURSIVE Compound(_, _)
Compound(r, t) == IF t = 0 THEN One ELSE Mul(Compound(r, t - 1), Add(One, r[t].v))

\* the worked example: prices 100, 110, 121, positions 0, 1, 1, capital 1000
ExamplePrices == <<Point(1, Rat(100, 1)), Point(2, Rat(110, 1)), Point(3, Rat(121, 1))>>
ExampleSignals == <<Point(1, Zero), Point(2, One), Point(3, One)>>
ExampleResult == run(ExamplePrices, ExampleSignals, Rat(1000, 1), "value")
ExampleHolds ==
    /\ ExampleResult.raised = "none"
    /\ ExampleResult.strategy_returns
         = <<Point(1, Zero), Point(2, Rat(1, 10)), Point(3, Rat(1, 10))>>
    /\ ExampleResult.equity_curve
         = <<Point(1, Rat(1000, 1)), Point(2, Rat(1100, 1)), Point(3, Rat(1210, 1))>>
    /\ ExampleResult.metrics.total_return = Rat(21, 100)

\* C1: for a non-empty price series and initial_capital > 0, run returns
\* strategy_return[1] = 0, strategy_return[t] = position[t] * (price[t] -
\* price[t-1]) / price[t-1] with the position of the same timestamp, equity[t] =
\* initial_capital * (1 + r[1]) * ... * (1 + r[t]), and total_return is the
\* compounded return; the worked example gives 0, 0.10, 0.10 / 1000, 1100, 1210.
C1_ReturnsAndEquity ==
    (pc = "run" /\ Len(prices) >= 1 /\ Lt(Zero, initial_capital)) =>
        /\ results.raised = "none"
        /\ Len(results.strategy_returns) = Len(prices)
        /\ Len(results.equity_curve) = Len(prices)
        /\ results.strategy_returns[1].v = Zero
        /\ \A t \in 2..Len(prices) :
              results.strategy_returns[t].v =
                Mul(PositionAt(prices[t].ts),
                    Div(Sub(prices[t].v, prices[t - 1].v), prices[t - 1].v))
        /\ \A t \in 1..Len(prices) :
              results.equity_curve[t].v =
                Mul(initial_capital, Compound(results.strategy_returns, t))
        /\ results.metrics.total_return =
              Sub(Compound(results.strategy_returns, Len(prices)), One)
        /\ ExampleHolds

C1_Witness ==
    /\ pc = "run" /\ Len(prices) = 3 /\ Lt(Zero, initial_capital)
    /\ results.raised = "none"
    /\ results.strategy_returns[2].v # Zero
    /\ results.strategy_returns[3].v # Zero
    /\ results.equity_curve[3].v # results.equity_curve[2].v
    /\ results.equity_curve[2].v # initial_capital

\* C2: the aligned positions run returns have exactly the price timestamps, in
\* order; each carries the supplied position where the signal input has that
\* timestamp and 0 where it has not (never an earlier value carried forward);
\* the equity curve and the strategy returns have the same timestamps.
C2_AlignedToPrices ==
    (pc = "run" /\ results.raised = "none") =>
        /\ SeriesIndex(results.signals) = SeriesIndex(prices)
        /\ SeriesIndex(results.equity_curve) = SeriesIndex(prices)
        /\ SeriesIndex(results.strategy_returns) = SeriesIndex(prices)
        /\ \A i \in 1..Len(prices) :
              /\ \A j \in 1..Len(signals) :
                    signals[j].ts = prices[i].ts => results.signals[i].v = signals[j].v
              /\ (\A j \in 1..Len(signals) : signals[j].ts # prices[i].ts)
                    => results.signals[i].v = Zero

\* a price timestamp without a signal after one with a signal, and a signal
\* timestamp that is no price timestamp
C2_Witness ==
    /\ pc = "run" /\ results.raised = "none"
    /\ \E i \in 2..Len(prices) :
          /\ \A j \in 1..Len(signals) : signals[j].ts # prices[i].ts
          /\ \E j \in 1..Len(signals) : signals[j].ts = prices[i - 1].ts
          /\ results.signals[i - 1].v # Zero
          /\ results.signals[i].v = Zero
    /\ \E j \in 1..Len(signals) :
          \A i \in 1..Len(prices) : signals[j].ts # prices[i].ts

\* C3: run fails, and returns nothing, whenever prices is empty or
\* initial_capital <= 0, and returns a result otherwise.
C3_InvalidInputRejected ==
    pc = "run" =>
        ((Len(prices) = 0 \/ Le(initial_capital, Zero)) <=> results.raised # "none")


\* C9 as stated: with a non-empty price series and initial_capital > 0, an
\* equity value <= 0 at t implies a strategy return of exactly -1 at some s <= t.
C9_PositiveUnlessExactlyMinusOne ==
    (pc = "run" /\ results.raised = "none" /\ Len(prices) >= 1
        /\ Lt(Zero, initial_capital)) =>
        \A t \in 1..Len(prices) :
            Le(results.equity_curve[t].v, Zero) =>
                \E s \in 1..t : results.strategy_returns[s].v = Rat(-1, 1)

\* C9, amended: with a non-empty price series and initial_capital > 0, an equity
\* value <= 0 at t implies a strategy return of -100% or worse (<= -1) at some
\* s <= t; every equity value is strictly positive when all returns are > -1.
C9_PositiveUnlessTotalLoss ==
    (pc = "run" /\ results.raised = "none" /\ Len(prices) >= 1
        /\ Lt(Zero, initial_capital)) =>
        \A t \in 1..Len(prices) :
            Le(results.equity_curve[t].v, Zero) =>
                \E s \in 1..t : Le(results.strategy_returns[s].v, Rat(-1, 1))

\* a leveraged loss beyond -100% drives the equity below zero, and it recovers
\* or not at the next period
C9_Witness ==
    /\ pc = "run" /\ results.raised = "none" /\ Len(prices) = 3
    /\ Lt(Zero, initial_capital)
    /\ Lt(results.equity_curve[2].v, Zero)
    /\ Lt(results.strategy_returns[2].v, Rat(-1, 1))
    /\ Lt(Zero, results.equity_curve[1].v)

\* the usable (non-missing) entries of the returns handed to the metrics
Usable == dropna(returns)

\* the wealth index never falls below its running peak
NeverBelowPeak(r) ==
    \A t \in 1..Len(r) : \A s \in 1..t : Le(Compound(r, s), Compound(r, t))

\* C4 as stated: for every non-empty return series max_drawdown is in [-1, 0]
\* and is 0 iff the wealth index never falls below its running peak.
C4_DrawdownInUnitRange ==
    (pc = "metrics" /\ metrics.raised = "none" /\ Len(Usable) >= 1) =>
        LET md == metrics.value.max_drawdown
        IN  /\ Le(Rat(-1, 1), md)
            /\ Le(md, Zero)
            /\ (md = Zero <=> NeverBelowPeak(Usable))

\* no return below -100%, and the first one above it: the wealth index starts
\* positive and never turns negative
NoLossBeyondCapital(r) ==
    /\ Lt(Rat(-1, 1), r[1].v)
    /\ \A i \in 1..Len(r) : Le(Rat(-1, 1), r[i].v)

\* C4, amended: for every non-empty return series whose returns are all >= -1
\* and whose first return is > -1, max_drawdown is in [-1, 0] and is 0 iff the
\* wealth index never falls below its running peak.
C4_DrawdownInUnitRangeIfSolvent ==
    (pc = "metrics" /\ metrics.raised = "none" /\ Len(Usable) >= 1
        /\ NoLossBeyondCapital(Usable)) =>
        LET md == metrics.value.max_drawdown
        IN  /\ Le(Rat(-1, 1), md)
            /\ Le(md, Zero)
            /\ (md = Zero <=> NeverBelowPeak(Usable))

\* a gain, then a partial loss: a drawdown strictly between -1 and 0
C4_Witness ==
    /\ pc = "metrics" /\ metrics.raised = "none" /\ Len(Usable) = 3
    /\ NoLossBeyondCapital(Usable)
    /\ Lt(Zero, Usable[1].v)
    /\ Lt(Rat(-1, 1), metrics.value.max_drawdown)
    /\ Lt(metrics.value.max_drawdown, Zero)
    /\ ~NeverBelowPeak(Usable)

\* C5: for every non-empty return series whose entries are all equal (a single
\* entry included), sharpe_ratio is exactly 0.0, never NaN.
C5_SharpeZeroOnConstantReturns ==
    (pc = "metrics" /\ metrics.raised = "none" /\ Len(returns) >= 1
        /\ Len(Usable) = Len(returns)
        /\ \A i \in 1..Len(returns) : returns[i].v = returns[1].v) =>
        metrics.value.sharpe_ratio = SharpeZero

\* C6: compute_performance_metrics fails, returning no mapping, when no entry
\* is usable, and otherwise returns a mapping with exactly the six keys.
C6_EmptyInputRejected ==
    pc = "metrics" =>
        IF Len(Usable) = 0
        THEN metrics.raised # "none"
        ELSE metrics.raised = "none" /\ DOMAIN metrics.value = MetricKeys

\* C7: kelly_fraction_win_loss(p, b) returns (b*p - (1-p)) / b when 0 < p < 1
\* and b > 0 (0 for p = 0.5, b = 1; 0.2 for p = 0.6, b = 1) and raises, returning
\* no value, for p <= 0, p >= 1 or b <= 0.
C7_KellyWinLoss ==
    pc = "kelly_win_loss" =>
        IF Lt(Zero, p) /\ Lt(p, One) /\ Lt(Zero, b)
        THEN /\ kelly.raised = "none"
             /\ ~kelly.value.nan
             \* f * b = b*p - (1 - p), by cross-multiplication
             /\ kelly.value.n * b.n * p.d
                  = (b.n * p.n - b.d * (p.d - p.n)) * kelly.value.d
             /\ (p = Rat(1, 2) /\ b = One) => kelly.value = Zero
             /\ (p = Rat(3, 5) /\ b = One) => kelly.value = Rat(1, 5)
        ELSE kelly.raised = "ValueError" /\ kelly.value = NaN

C7_Witness ==
    /\ pc = "kelly_win_loss"
    /\ p = Rat(3, 5) /\ b = One
    /\ kelly.raised = "none" /\ kelly.value = Rat(1, 5)

\* C8: kelly_fraction_continuous never yields an undefined number: it fails on
\* an empty sequence, returns exactly 0.0 when the population variance is 0 and
\* mean / population variance otherwise.
C8_KellyContinuousDefined ==
    pc = "kelly_continuous" =>
        IF Len(kelly_returns) = 0
        THEN kelly.raised # "none"
        ELSE /\ kelly.raised = "none"
             /\ ~kelly.value.nan
             /\ IF \A i \in 1..Len(kelly_returns) : kelly_returns[i] = kelly_returns[1]
                THEN kelly.value = Zero
                ELSE kelly.value =
                        Div(mean(AsSeries(kelly_returns)), var(AsSeries(kelly_returns), 0))


\* the mean of the last min(w, k) of the first k prices
RECURSIVE SumValues(_)
SumValues(seq) == IF seq = <<>> THEN Zero ELSE Add(Head(seq).v, SumValues(Tail(seq)))

PrefixMean(pr, k, w) ==
    LET lo == IF k - w + 1 < 1 THEN 1 ELSE k - w + 1
    IN  Div(SumValues(SubSeq(pr, lo, k)), Rat(k - lo + 1, 1))

\* q and prices have the same timestamps up to t and the same prices before t
AgreeBefore(q, t) ==
    /\ Len(q) >= t
    /\ \A s \in 1..t : q[s].ts = prices[s].ts
    /\ \A s \in 1..(t - 1) : q[s].v = prices[s].v

\* C10: in generate_signals followed by run on the same prices, the first
\* position is 0 and the position that multiplies the price return of period t
\* is 1 iff the short moving average exceeds the long one over the prices up to
\* t-1; run shifts nothing itself; so any price series that agrees with prices
\* before t yields the same position at t.
C10_NoLookahead ==
    (pc = "pipeline" /\ results.raised = "none") =>
        /\ Len(results.signals) = Len(prices)
        /\ Len(prices) >= 1 => results.signals[1].v = Zero
        /\ \A t \in 2..Len(prices) :
              results.signals[t].v =
                IF Lt(PrefixMean(prices, t - 1, long_window),
                      PrefixMean(prices, t - 1, short_window))
                THEN One ELSE Zero
        /\ \A t \in 2..Len(prices) :
              results.strategy_returns[t].v =
                Mul(results.signals[t].v,
                    Div(Sub(prices[t].v, prices[t - 1].v), prices[t - 1].v))
        /\ \A q \in TimeSeriesSet(PriceValues) :
              LET other == AlignSignals(generate_signals(q, short_window, long_window), q)
              IN  \A t \in 1..Len(prices) :
                     AgreeBefore(q, t) => other[t].v = results.signals[t].v

\* the price falls at the third timestamp while the position held is long,
\* decided by the rise before it
C10_Witness ==
    /\ pc = "pipeline" /\ results.raised = "none" /\ Len(prices) = 3
    /\ Lt(prices[3].v, prices[2].v)
    /\ results.signals[3].v = One
    /\ Lt(results.strategy_returns[3].v, Zero)

====
